---- MODULE Spec2Model ----
(***************************************************************************)
(* A model of TypeScriptCompletionItemProvider                             *)
(* (src/src/server/features/completionItemProvider.ts): the trigger gate,  *)
(* the request builder, completion-list assembly, the entry filter, lazy   *)
(* item resolution and the code action splitter.                           *)
(*                                                                         *)
(* Conventions.  A JavaScript string is a sequence of one-character        *)
(* strings where the code inspects its characters (preceding text, lines,  *)
(* display parts, documentation) and a sequence of tokens where the code   *)
(* only concatenates (insertion text).  An optional value is a sequence of *)
(* length 0 (undefined / null) or 1.  A capability version                 *)
(* major.minor.patch is the integer 100*major + 10*minor + patch.          *)
(***************************************************************************)
EXTENDS Integers, Sequences, FiniteSets, TLC

VARIABLES
  apiVersion,         \* this.client.apiVersion
  config,             \* the CompletionConfiguration snapshot of the document
  gateIn,             \* arguments of one shouldTrigger call
  gateOut,            \* its result (optional boolean)
  splitIn,            \* arguments of one getCodeActions call
  splitOut,           \* its result
  resplitOut,         \* result of getCodeActions on the first result's payload
  currentLine,        \* this.currentLine
  item,               \* the CompletionItem handed to resolveCompletionItem
  backendDetail,      \* the backend's CompletionEntryDetails for the item
  rpc,                \* per resolve call: idle, details, quickinfo, resume, done
  previousInsert,     \* per resolve call: item.insertText at entry (line 254)
  entry,              \* per resolve call: the item's fields at entry
  sent,               \* per resolve call: the backend requests it issued
  detailsReply,       \* per resolve call: outcome of completionEntryDetails
  quickinfoReply,     \* per resolve call: outcome of quickinfo
  shouldCompleteFunction, \* per resolve call: what line 287 awaits, once
                      \* isValidFunctionCompletionContext has returned it
  ret,                \* per resolve call: none, item, undefined, TypeError
  isAcquiringTypings, \* this.typingsStatus.isAcquiringTypings
  document,           \* provideCompletionItems: the document (uri, cursor line)
  position,           \* provideCompletionItems: the cursor position
  context,            \* provideCompletionItems: triggerCharacter and option
  ppc,                \* provideCompletionItems: idle, configure, completion, done
  psent,              \* the collaborator calls the invocation has made
  completionReply,    \* outcome of the completionInfo / completions round trip
  conversionContext,  \* the context object handed to convertCompletionEntry
  presult,            \* what the invocation returned or threw
  execIn,             \* the code actions handed to the deferred command
  epc,                \* execute: idle, pick, apply, done
  prompts,            \* the quick-pick prompts execute has shown
  picked,             \* what the quick-pick prompt resolved to
  applied,            \* the code actions handed to applyCodeAction
  tsOut,              \* result of one getTsTriggerCharacter call
  parked              \* the locals of a provideCompletionItems invocation
                      \* suspended at an await while a later one runs

envVars == <<apiVersion, config>>
gateVars == <<gateIn, gateOut>>
splitVars == <<splitIn, splitOut, resplitOut>>
resolveVars == <<currentLine, item, backendDetail, rpc, previousInsert, entry,
                 sent, detailsReply, quickinfoReply, shouldCompleteFunction, ret>>
provideVars == <<isAcquiringTypings, document, position, context, ppc, psent,
                 completionReply, conversionContext, presult>>
execVars == <<execIn, epc, prompts, picked, applied>>
builderVars == <<tsOut>>
sessionVars == <<parked>>
vars == <<apiVersion, config, gateIn, gateOut, splitIn, splitOut, resplitOut,
          currentLine, item, backendDetail, rpc, previousInsert, entry,
          sent, detailsReply, quickinfoReply, shouldCompleteFunction, ret,
          isAcquiringTypings, document, position, context, ppc, psent,
          completionReply, conversionContext, presult,
          execIn, epc, prompts, picked, applied, tsOut, parked>>

----------------------------------------------------------------------------
(* Values *)

undefined == "undefined"

None == <<>>
Some(v) == <<v>>
IsSome(o) == Len(o) = 1
Get(o) == o[1]

RECURSIVE Flatten(_)
Flatten(ss) == IF ss = <<>> THEN <<>> ELSE Head(ss) \o Flatten(Tail(ss))

RECURSIVE SeqsUpTo(_, _)
SeqsUpTo(S, n) ==
  IF n = 0 THEN {<<>>}
  ELSE LET shorter == SeqsUpTo(S, n - 1)
       IN shorter \cup {Append(s, x) : s \in shorter, x \in S}

(* Capability versions (API.vNNN of ../utils/api). *)
v290 == 290
v300 == 300
v310 == 310
v320 == 320
v381 == 381
v430 == 430

gte(v, w) == v >= w
lt(v, w) == v < w

Versions == {280, 290, 300, 309, 310, 315, 319, 320, 380, 381, 429, 430, 500}

Configurations ==
  [useCodeSnippetsOnMethodSuggest : BOOLEAN,
   nameSuggestions : BOOLEAN,
   pathSuggestions : BOOLEAN,
   autoImportSuggestions : BOOLEAN,
   importStatementSuggestions : BOOLEAN]

defaultConfiguration ==
  [useCodeSnippetsOnMethodSuggest |-> FALSE,
   nameSuggestions |-> TRUE,
   pathSuggestions |-> TRUE,
   autoImportSuggestions |-> TRUE,
   importStatementSuggestions |-> TRUE]

----------------------------------------------------------------------------
(* Trigger Gate *)

\* The backtick is written "backtick": the lexer admits no backtick in a string.
triggerCharacters == {".", "\"", "'", "backtick", "/", "@", "<", "#", " "}

\* The characters the regular expressions' whitespace class and trim() take
\* for white space.  Those a string cannot be written with stand under
\* their code point: line tabulation, no-break space, ogham space mark, the
\* spaces U+2000 to U+200A, line and paragraph separator, narrow no-break
\* space, medium mathematical space, ideographic space, byte order mark.
WhiteSpaceChars ==
  {" ", "\t", "\n", "\r", "\f", "U+000B", "U+00A0", "U+1680",
   "U+2000", "U+2001", "U+2002", "U+2003", "U+2004", "U+2005", "U+2006",
   "U+2007", "U+2008", "U+2009", "U+200A", "U+2028", "U+2029", "U+202F",
   "U+205F", "U+3000", "U+FEFF"}

IsSpace(c) == c \in WhiteSpaceChars

\* pre matches: start, any whitespace, a star, an optional blank, an at-sign
MatchesDocLine(pre) ==
  \E k \in 0..Len(pre) :
    /\ \A i \in 1..k : IsSpace(pre[i])
    /\ Len(pre) >= k + 2
    /\ pre[k + 1] = "*"
    /\ \/ pre[k + 2] = "@"
       \/ /\ Len(pre) >= k + 3
          /\ pre[k + 2] = " "
          /\ pre[k + 3] = "@"

\* pre matches anywhere: slash, two or more stars, an optional blank, an at-sign
MatchesDocOpen(pre) ==
  \E i \in 1..Len(pre) : \E j \in (i + 2)..Len(pre) :
    /\ pre[i] = "/"
    /\ pre[i + 1] = "*"
    /\ \A k \in (i + 2)..j : pre[k] = "*"
    /\ Len(pre) >= j + 1
    /\ \/ pre[j + 1] = "@"
       \/ /\ Len(pre) >= j + 2
          /\ pre[j + 1] = " "
          /\ pre[j + 2] = "@"

\* Syntax group names the editor may report at the cursor (option.synname).
\* None when the editor reports no group.
SynNames ==
  {None,
   Some(<<"t", "y", "p", "e", "s", "c", "r", "i", "p", "t", "S", "t", "r", "i", "n", "g">>),
   Some(<<"t", "s", "x", "S", "t", "r", "i", "n", "g">>),
   Some(<<"S", "T", "R", "I", "N", "G">>),
   Some(<<"t", "y", "p", "e", "s", "c", "r", "i", "p", "t", "S", "t", "r", "i", "n", "g", "S">>),
   Some(<<"t", "y", "p", "e", "s", "c", "r", "i", "p", "t", "C", "o", "m", "m", "e", "n", "t">>),
   Some(<<"s", "t", "r", "i", "n">>)}

\* name contains "string", each letter in either case
ContainsStringIgnoreCase(name) ==
  \E i \in 1..(Len(name) - 5) :
    /\ name[i] \in {"s", "S"}
    /\ name[i + 1] \in {"t", "T"}
    /\ name[i + 2] \in {"r", "R"}
    /\ name[i + 3] \in {"i", "I"}
    /\ name[i + 4] \in {"n", "N"}
    /\ name[i + 5] \in {"g", "G"}

\* Line 357: option.synname is set, not empty, and contains "string",
\* whatever the case.
InStringRegion(synname) ==
  IsSome(synname) /\ Len(Get(synname)) > 0 /\ ContainsStringIgnoreCase(Get(synname))

importPrefix == <<"i", "m", "p", "o", "r", "t", " ">>

\* Lines 354-367: Some(result) when the legacy block returns, None when it
\* falls through to the space check.
legacyGate_NoAngle(triggerCharacter, pre, synname) ==
  IF triggerCharacter # undefined /\ lt(apiVersion, v290)
    THEN IF triggerCharacter = "@"
           THEN IF InStringRegion(synname)
                  THEN Some(TRUE)
                ELSE IF ~MatchesDocLine(pre) /\ ~MatchesDocOpen(pre)
                  THEN Some(FALSE)
                ELSE None
         ELSE None
    ELSE None

legacyGate(triggerCharacter, pre, synname) ==
  IF triggerCharacter # undefined /\ lt(apiVersion, v290)
    THEN IF triggerCharacter = "@"
           THEN IF InStringRegion(synname)
                  THEN Some(TRUE)
                ELSE IF ~MatchesDocLine(pre) /\ ~MatchesDocOpen(pre)
                  THEN Some(FALSE)
                ELSE None
         ELSE IF triggerCharacter = "<"
           THEN Some(FALSE)
         ELSE None
    ELSE None

StartsWith(s, prefix) ==
  Len(s) >= Len(prefix) /\ SubSeq(s, 1, Len(prefix)) = prefix

spaceGate_StartsWith(triggerCharacter, pre, configuration) ==
  IF triggerCharacter = " "
    THEN IF ~configuration.importStatementSuggestions \/ ~lt(apiVersion, v430)
           THEN FALSE
           ELSE StartsWith(pre, importPrefix)
    ELSE TRUE

spaceGate_AnyVersion(triggerCharacter, pre, configuration) ==
  IF triggerCharacter = " "
    THEN IF ~configuration.importStatementSuggestions
           THEN FALSE
           ELSE pre = importPrefix
    ELSE TRUE

\* Lines 369-376.
spaceGate(triggerCharacter, pre, configuration) ==
  IF triggerCharacter = " "
    THEN IF ~configuration.importStatementSuggestions \/ ~lt(apiVersion, v430)
           THEN FALSE
           ELSE pre = importPrefix
    ELSE TRUE

shouldTrigger(triggerCharacter, pre, synname, configuration) ==
  LET legacy == legacyGate(triggerCharacter, pre, synname)
  IN IF IsSome(legacy) THEN Get(legacy)
     ELSE spaceGate(triggerCharacter, pre, configuration)

----------------------------------------------------------------------------
(* Code Action Splitter *)

Map(f(_), s) == [i \in 1..Len(s) |-> f(s[i])]

\* typeConverters.TextEdit.fromCodeEdit: a protocol span, 1-based in line and
\* offset, to a 0-based editor range, the new text kept.
fromCodeEdit(edit) ==
  [range |-> [start |-> [line |-> edit.start.line - 1,
                         character |-> edit.start.offset - 1],
              end |-> [line |-> edit.end.line - 1,
                       character |-> edit.end.offset - 1]],
   newText |-> edit.newText]

ApplyCompletionCodeActionCommand_ID == "_typescript.applyCompletionCodeAction"

\* Lines 312-320 for one action: the converted edits of its current-file changes.
actionInlineEdits(tsAction, filepath) ==
  Flatten(Map(LAMBDA change : IF change.fileName = filepath
                                THEN Map(fromCodeEdit, change.textChanges)
                                ELSE <<>>,
              tsAction.changes))

hasRemainingCommandsOrEdits_EditsOnly(codeActions, filepath) ==
  \E i \in 1..Len(codeActions) :
    \E j \in 1..Len(codeActions[i].changes) :
      codeActions[i].changes[j].fileName # filepath

\* Lines 305-322: whether any action carries commands or a change for another file.
hasRemainingCommandsOrEdits(codeActions, filepath) ==
  \E i \in 1..Len(codeActions) :
    \/ IsSome(codeActions[i].commands)
    \/ \E j \in 1..Len(codeActions[i].changes) :
         codeActions[i].changes[j].fileName # filepath

remainingAction_Unstripped(x, filepath) ==
  [commands |-> x.commands, description |-> x.description, changes |-> x.changes]

\* Lines 332-336: an action of the deferred command's payload.
remainingAction(x, filepath) ==
  [commands |-> x.commands,
   description |-> x.description,
   changes |-> SelectSeq(x.changes, LAMBDA c : c.fileName # filepath)]

getCodeActions(detail, filepath) ==
  IF ~IsSome(detail.codeActions) \/ Len(Get(detail.codeActions)) = 0
    THEN [command |-> None, additionalTextEdits |-> None]
  ELSE
    LET codeActions == Get(detail.codeActions)
        additionalTextEdits ==
          Flatten(Map(LAMBDA a : actionInlineEdits(a, filepath), codeActions))
        command ==
          IF hasRemainingCommandsOrEdits(codeActions, filepath)
            THEN Some([title |-> "",
                       command |-> ApplyCompletionCodeActionCommand_ID,
                       arguments |->
                         <<Map(LAMBDA x : remainingAction(x, filepath), codeActions)>>])
            ELSE None
    IN [command |-> command,
        additionalTextEdits |-> IF Len(additionalTextEdits) > 0
                                  THEN Some(additionalTextEdits)
                                  ELSE None]

----------------------------------------------------------------------------
(* Resolution Pipeline *)

MaxCalls == 2

Calls == 1..MaxCalls

\* this.client.toPath: the file path of a file: uri, none for any other scheme.
toPath(uri) ==
  IF uri = "file:///a.ts" THEN Some("a.ts")
  ELSE IF uri = "file:///b.ts" THEN Some("b.ts")
  ELSE None

\* typeConverters.Position.toFileLocationRequestArgs: 0-based position to the
\* protocol's 1-based line and offset.
toFileLocationRequestArgs(file, pos) ==
  [file |-> file, line |-> pos.line + 1, offset |-> pos.character + 1]

\* Previewer.plainWithLinks: the texts of the display parts, concatenated.
plainWithLinks(parts) == Flatten([i \in 1..Len(parts) |-> parts[i].text])

\* Previewer.tagsMarkdownPreview: one "*@name* text" line per tag.
tagsMarkdownPreview(tags) ==
  Flatten([i \in 1..Len(tags) |->
             (IF i > 1 THEN <<" ", " ", "\n", "\n">> ELSE <<>>)
               \o <<"*", "@">> \o tags[i].name \o <<"*">> \o tags[i].text])

\* s && s.trim() != '' fails: the text is empty or all white space.
IsBlankText(text) == \A i \in 1..Len(text) : IsSpace(text[i])

RECURSIVE JoinTexts(_, _)
JoinTexts(texts, joiner) ==
  IF texts = <<>> THEN <<>>
  ELSE IF Len(texts) = 1 THEN texts[1]
  ELSE texts[1] \o joiner \o JoinTexts(Tail(texts), joiner)

getDocumentation(detail) ==
  LET head == IF IsSome(detail.source)
                THEN <<"A", "u", "t", "o", " ", "i", "m", "p", "o", "r", "t", " ", "f", "r", "o", "m", " ">>
                       \o <<"'">> \o plainWithLinks(Get(detail.source))
                       \o <<"'", "\n">>
                ELSE <<>>
      parts == SelectSeq(<<plainWithLinks(detail.documentation),
                           tagsMarkdownPreview(detail.tags)>>,
                         LAMBDA t : ~IsBlankText(t))
      documentation == head \o JoinTexts(parts, <<"\n", "\n">>)
  IN IF Len(documentation) > 0
       THEN Some([kind |-> "markdown", value |-> documentation])
       ELSE None

\* getParameterListParts: the names of the parameters not followed by '?',
\* and whether some parameter is followed by '?'.
getParameterListParts(displayParts) ==
  LET isParam(i) == displayParts[i].kind = "parameterName"
      isOptional(i) == i < Len(displayParts) /\ displayParts[i + 1].text = <<"?">>
      idx == {i \in 1..Len(displayParts) : isParam(i)}
      RECURSIVE collect(_)
      collect(i) ==
        IF i > Len(displayParts) THEN <<>>
        ELSE (IF isParam(i) /\ ~isOptional(i) THEN <<displayParts[i]>> ELSE <<>>)
               \o collect(i + 1)
  IN [parts |-> collect(1),
      hasOptionalParameters |-> \E i \in idx : isOptional(i)]

\* appendJoinedPlaceholders (lines 481-493) on a SnippetString whose next
\* placeholder number is first: "${n:text}" per part, the joiner between.
appendJoinedPlaceholders(parts, joiner, first) ==
  Flatten([i \in 1..Len(parts) |->
             <<[placeholder |-> first + i - 1, text |-> parts[i].text]>>
               \o (IF i # Len(parts) THEN <<joiner>> ELSE <<>>)])

\* Lines 402-417: the item with its insertText replaced by the call snippet.
createSnippetOfFunctionCall(it, detail) ==
  LET parameterListParts == getParameterListParts(detail.displayParts)
      base == IF IsSome(it.insertText) THEN Get(it.insertText) ELSE <<it.label>>
      n == Len(parameterListParts.parts)
      snippet ==
        base \o <<"(">>
          \o appendJoinedPlaceholders(parameterListParts.parts, ", ", 1)
          \o (IF parameterListParts.hasOptionalParameters
                THEN <<[tabstop |-> n + 1]>> ELSE <<>>)
          \o <<")">>
          \o <<[tabstop |-> 0]>>
  IN [it EXCEPT !.insertText = Some(snippet)]

IdentChars ==
  {"a", "b", "c", "d", "e", "f", "g", "h", "i", "j", "k", "l", "m", "n", "o",
   "p", "q", "r", "s", "t", "u", "v", "w", "x", "y", "z",
   "A", "B", "C", "D", "E", "F", "G", "H", "I", "J", "K", "L", "M", "N", "O",
   "P", "Q", "R", "S", "T", "U", "V", "W", "X", "Y", "Z",
   "0", "1", "2", "3", "4", "5", "6", "7", "8", "9", "_", "$"}

slice(s, from) == SubSeq(s, from + 1, Len(s))

\* after matches: start, identifier characters, whitespace, an opening parenthesis
LooksLikeCall(after) ==
  \E i \in 0..Len(after) : \E j \in i..Len(after) :
    /\ \A k \in 1..i : after[k] \in IdentChars
    /\ \A k \in (i + 1)..j : IsSpace(after[k])
    /\ Len(after) >= j + 1
    /\ after[j + 1] = "("

isValidFunctionCompletionContext_FailClosed(reply, pos) ==
  IF reply.outcome = "response" /\ IsSome(reply.body)
    THEN IF Get(reply.body).kind \in {"var", "let", "const", "alias"}
           THEN FALSE
           ELSE ~LooksLikeCall(slice(currentLine, pos.character))
    ELSE FALSE

\* Lines 419-448, given the outcome of the quickinfo round trip.
isValidFunctionCompletionContext(reply, pos) ==
  IF /\ reply.outcome = "response"
     /\ IsSome(reply.body)
     /\ Get(reply.body).kind \in {"var", "let", "const", "alias"}
    THEN FALSE
    ELSE ~LooksLikeCall(slice(currentLine, pos.character))

\* Line 260: the entry name sent for the detail lookup.
entryName(data) ==
  IF data.source # ""
    THEN [name |-> data.name, source |-> data.source, data |-> data.data]
    ELSE [name |-> data.name]

firstDetail_EmptyAsBlank(reply) ==
  IF reply.outcome # "response" \/ ~IsSome(reply.body)
    THEN None
  ELSE IF Len(Get(reply.body)) = 0
    THEN Some([displayParts |-> <<>>, documentation |-> <<>>, tags |-> <<>>,
               source |-> None, codeActions |-> None])
  ELSE Get(reply.body)[1]

\* Lines 269-277: the detail the pipeline goes on with, none when the call
\* returns the item as it is.
firstDetail(reply) ==
  IF reply.outcome # "response" \/ ~IsSome(reply.body) \/ Len(Get(reply.body)) = 0
    THEN None
  ELSE Get(reply.body)[1]

\* Lines 278-284: detail text, documentation, command and edits attached.
attachDetail(it, detail, filepath) ==
  LET codeActions == getCodeActions(detail, filepath)
  IN [it EXCEPT
        !.detail = IF (~IsSome(it.detail) \/ Get(it.detail) = <<>>)
                      /\ Len(detail.displayParts) > 0
                     THEN Some(plainWithLinks(detail.displayParts))
                     ELSE it.detail,
        !.documentation = getDocumentation(detail),
        !.command = IF IsSome(codeActions.command)
                      THEN codeActions.command ELSE it.command,
        !.additionalTextEdits = codeActions.additionalTextEdits]

needsSnippet_IgnoreFlag(it) == it.insertTextFormat = "Snippet"

\* Line 285: the guard of snippet synthesis.
needsSnippet(it) == ~it.data.isSnippet /\ it.insertTextFormat = "Snippet"

callIdle ==
  /\ rpc = [p \in Calls |-> "idle"]
  /\ previousInsert = [p \in Calls |-> None]
  /\ entry = [p \in Calls |-> None]
  /\ sent = [p \in Calls |-> <<>>]
  /\ detailsReply = [p \in Calls |-> None]
  /\ quickinfoReply = [p \in Calls |-> None]
  /\ shouldCompleteFunction = [p \in Calls |-> None]
  /\ ret = [p \in Calls |-> "none"]

\* Line 251: item.data can be destructured only when the item carries it; the
\* call on an item without data rejects with a TypeError.
hasData(it) == "data" \in DOMAIN it

\* Lines 245-262: entry of a call, up to the completionEntryDetails request.
ResolveStart(p) ==
  /\ rpc[p] \in {"idle", "done"}
  /\ entry' = [entry EXCEPT ![p] = Some(item)]
  /\ detailsReply' = [detailsReply EXCEPT ![p] = None]
  /\ quickinfoReply' = [quickinfoReply EXCEPT ![p] = None]
  /\ shouldCompleteFunction' = [shouldCompleteFunction EXCEPT ![p] = None]
  /\ IF ~hasData(item)
       THEN /\ rpc' = [rpc EXCEPT ![p] = "done"]
            /\ ret' = [ret EXCEPT ![p] = "TypeError"]
            /\ previousInsert' = [previousInsert EXCEPT ![p] = None]
            /\ sent' = [sent EXCEPT ![p] = <<>>]
     ELSE LET filepath == toPath(item.data.uri)
          IN IF ~IsSome(filepath)
               THEN /\ rpc' = [rpc EXCEPT ![p] = "done"]
                    /\ ret' = [ret EXCEPT ![p] = "undefined"]
                    /\ previousInsert' = [previousInsert EXCEPT ![p] = None]
                    /\ sent' = [sent EXCEPT ![p] = <<>>]
               ELSE /\ rpc' = [rpc EXCEPT ![p] = "details"]
                    /\ ret' = [ret EXCEPT ![p] = "none"]
                    /\ previousInsert' = [previousInsert EXCEPT ![p] = item.insertText]
                    /\ sent' = [sent EXCEPT ![p] =
                         <<[command |-> "completionEntryDetails",
                            args |-> [location |->
                                        toFileLocationRequestArgs(Get(filepath),
                                                                  item.data.position),
                                      entryNames |-> <<entryName(item.data)>>]]>>]
  /\ UNCHANGED <<envVars, sessionVars, execVars, builderVars, gateVars, splitVars, provideVars, currentLine, item, backendDetail>>

NoBody == None

DetailsReplies ==
  {[outcome |-> "throw", byCancellation |-> c, body |-> NoBody] : c \in BOOLEAN}
  \cup {[outcome |-> "cancelled", byCancellation |-> TRUE, body |-> NoBody],
        [outcome |-> "noContent", byCancellation |-> FALSE, body |-> NoBody],
        [outcome |-> "response", byCancellation |-> FALSE, body |-> NoBody],
        [outcome |-> "response", byCancellation |-> FALSE, body |-> Some(<<>>)],
        [outcome |-> "response", byCancellation |-> FALSE, body |-> Some(<<None>>)],
        [outcome |-> "response", byCancellation |-> FALSE,
         body |-> Some(<<Some(backendDetail)>>)]}

\* Lines 263-287: the completionEntryDetails round trip ends; the detail is
\* attached and, for a snippet item not yet marked, quickinfo is requested.
ResolveDetails(p) ==
  /\ rpc[p] = "details"
  /\ \E reply \in DetailsReplies :
       LET filepath == Get(toPath(item.data.uri))
           detail == IF reply.outcome = "throw" THEN None ELSE firstDetail(reply)
       IN /\ detailsReply' = [detailsReply EXCEPT ![p] = Some(reply)]
          /\ IF ~IsSome(detail)
               THEN /\ rpc' = [rpc EXCEPT ![p] = "done"]
                    /\ ret' = [ret EXCEPT ![p] = "item"]
                    /\ UNCHANGED <<item, sent>>
             ELSE LET attached == attachDetail(item, Get(detail), filepath)
                  IN IF needsSnippet(attached)
                       THEN /\ item' = [attached EXCEPT !.data.isSnippet = TRUE]
                            /\ rpc' = [rpc EXCEPT ![p] = "quickinfo"]
                            /\ sent' = [sent EXCEPT ![p] = Append(@,
                                 [command |-> "quickinfo",
                                  args |-> [location |->
                                    toFileLocationRequestArgs(filepath,
                                                              item.data.position)]])]
                            /\ UNCHANGED ret
                       ELSE /\ item' = attached
                            /\ rpc' = [rpc EXCEPT ![p] = "done"]
                            /\ ret' = [ret EXCEPT ![p] = "item"]
                            /\ UNCHANGED sent
  /\ UNCHANGED <<envVars, sessionVars, execVars, builderVars, gateVars, splitVars, provideVars, currentLine, backendDetail,
                 previousInsert, entry, quickinfoReply, shouldCompleteFunction>>

QuickinfoReplies ==
  {[outcome |-> "throw", byCancellation |-> c, body |-> NoBody] : c \in BOOLEAN}
  \cup {[outcome |-> "cancelled", byCancellation |-> TRUE, body |-> NoBody],
        [outcome |-> "noContent", byCancellation |-> FALSE, body |-> NoBody],
        [outcome |-> "response", byCancellation |-> FALSE, body |-> NoBody]}
  \cup {[outcome |-> "response", byCancellation |-> FALSE,
         body |-> Some([kind |-> k])] :
          k \in {"var", "let", "const", "alias", "function", "method"}}

\* Lines 428-447: the quickinfo round trip ends inside
\* isValidFunctionCompletionContext, which decides on this.currentLine as it
\* is at that moment; the caller, suspended at line 287, has not resumed yet.
ResolveQuickinfo(p) ==
  /\ rpc[p] = "quickinfo"
  /\ \E reply \in QuickinfoReplies :
       /\ quickinfoReply' = [quickinfoReply EXCEPT ![p] = Some(reply)]
       /\ shouldCompleteFunction' = [shouldCompleteFunction EXCEPT ![p] =
            Some(isValidFunctionCompletionContext(reply,
                                                  Get(entry[p]).data.position))]
  /\ rpc' = [rpc EXCEPT ![p] = "resume"]
  /\ UNCHANGED <<envVars, sessionVars, execVars, builderVars, gateVars, splitVars, provideVars, currentLine, item, backendDetail,
                 previousInsert, entry, sent, detailsReply, ret>>

ResolveResume_NoSnapshotCheck(p) ==
  /\ rpc[p] = "resume"
  /\ LET detail == Get(firstDetail(Get(detailsReply[p])))
     IN item' = IF Get(shouldCompleteFunction[p])
                  THEN createSnippetOfFunctionCall(item, detail)
                  ELSE item
  /\ rpc' = [rpc EXCEPT ![p] = "done"]
  /\ ret' = [ret EXCEPT ![p] = "item"]
  /\ UNCHANGED <<envVars, sessionVars, execVars, builderVars, gateVars, splitVars, provideVars, currentLine, backendDetail,
                 previousInsert, entry, sent, detailsReply, quickinfoReply,
                 shouldCompleteFunction>>

\* Lines 287-292: resolveCompletionItem resumes with the awaited decision; the
\* snippet is synthesized when the decision was to complete and insertText is
\* still previousInsert, and the item is returned.
ResolveResume(p) ==
  /\ rpc[p] = "resume"
  /\ LET detail == Get(firstDetail(Get(detailsReply[p])))
     IN item' = IF Get(shouldCompleteFunction[p]) /\ previousInsert[p] = item.insertText
                  THEN createSnippetOfFunctionCall(item, detail)
                  ELSE item
  /\ rpc' = [rpc EXCEPT ![p] = "done"]
  /\ ret' = [ret EXCEPT ![p] = "item"]
  /\ UNCHANGED <<envVars, sessionVars, execVars, builderVars, gateVars, splitVars, provideVars, currentLine, backendDetail,
                 previousInsert, entry, sent, detailsReply, quickinfoReply,
                 shouldCompleteFunction>>

----------------------------------------------------------------------------
(* Request Builder, Entry Filter and List Assembler *)

getTsTriggerCharacter_AtAlways(ctx) ==
  IF ctx.triggerCharacter = "@"
    THEN "@"
  ELSE IF ctx.triggerCharacter = "#"
    THEN IF lt(apiVersion, v381) THEN undefined ELSE "#"
  ELSE IF ctx.triggerCharacter = " "
    THEN IF gte(apiVersion, v430) THEN " " ELSE undefined
  ELSE IF ctx.triggerCharacter \in {".", "\"", "'", "backtick", "/", "<"}
    THEN ctx.triggerCharacter
  ELSE undefined

\* Lines 215-235.
getTsTriggerCharacter(ctx) ==
  IF ctx.triggerCharacter = "@"
    THEN IF gte(apiVersion, v310) /\ lt(apiVersion, v320) THEN undefined ELSE "@"
  ELSE IF ctx.triggerCharacter = "#"
    THEN IF lt(apiVersion, v381) THEN undefined ELSE "#"
  ELSE IF ctx.triggerCharacter = " "
    THEN IF gte(apiVersion, v430) THEN " " ELSE undefined
  ELSE IF ctx.triggerCharacter \in {".", "\"", "'", "backtick", "/", "<"}
    THEN ctx.triggerCharacter
  ELSE undefined

shouldExcludeCompletionEntry_NoScript(element, completionConfiguration) ==
  \/ ~completionConfiguration.nameSuggestions /\ element.kind = "warning"
  \/ /\ ~completionConfiguration.pathSuggestions
     /\ element.kind \in {"directory", "external module name"}
  \/ ~completionConfiguration.autoImportSuggestions /\ element.hasAction

\* Lines 469-479.
shouldExcludeCompletionEntry(element, completionConfiguration) ==
  \/ ~completionConfiguration.nameSuggestions /\ element.kind = "warning"
  \/ /\ ~completionConfiguration.pathSuggestions
     /\ element.kind \in {"directory", "script", "external module name"}
  \/ ~completionConfiguration.autoImportSuggestions /\ element.hasAction

\* document.getText of the range from the start of the cursor line to the cursor.
preTextOf(doc, pos) == SubSeq(doc.line, 1, pos.character)

\* text.match of: an optional question mark, a dot, any whitespace, the end.
\* The match array (no capture group: its one element is the matched text),
\* none when nothing matches.
dotMatchOf(text) ==
  LET matchesFrom(i) ==
        LET k == IF text[i] = "?" THEN i + 1 ELSE i
        IN /\ k <= Len(text)
           /\ text[k] = "."
           /\ \A j \in (k + 1)..Len(text) : IsSpace(text[j])
      starts == {i \in 1..Len(text) : matchesFrom(i)}
  IN IF starts = {} THEN None
     ELSE LET first == CHOOSE i \in starts : \A j \in starts : i <= j
          IN Some(<<SubSeq(text, first, Len(text))>>)

\* Lines 164-174: the DotAccessorContext of a member completion.
dotAccessorContextOf(doc, pos) ==
  LET dotMatch == dotMatchOf(SubSeq(preTextOf(doc, pos), 1, pos.character))
  IN IF IsSome(dotMatch)
       THEN LET start == pos.character - Len(Get(dotMatch))
            IN Some([range |-> [start |-> [line |-> pos.line, character |-> start],
                                end |-> pos],
                     text |-> SubSeq(doc.line, start + 1, pos.character)])
       ELSE None

\* Lines 450-466.
isInValidCommitCharacterContext(doc, pos) ==
  IF lt(apiVersion, v320) /\ pos.character > 1
    THEN LET preText == preTextOf(doc, pos)
             n == Len(preText)
         IN ~(/\ n >= 1
              /\ preText[n] = "."
              /\ (n = 1 \/ IsSpace(preText[n - 1])))
    ELSE TRUE

\* convertCompletionEntry: the item of an entry; its label is the entry's
\* name and its data carries the correlation key for resolution.
convertCompletionEntry(element, uri, pos, ctx) ==
  [label |-> element.name,
   insertText |-> None,
   insertTextFormat |-> IF ctx.enableCallCompletions
                           /\ element.kind \in {"function", "method"}
                          THEN "Snippet" ELSE "PlainText",
   detail |-> None,
   documentation |-> None,
   command |-> None,
   additionalTextEdits |-> None,
   data |-> [uri |-> uri, position |-> pos, source |-> element.source,
             name |-> element.name, data |-> element.data, isSnippet |-> FALSE]]

nullResult == [kind |-> "null"]

pendingResult == [kind |-> "pending"]

errorResult(message) == [kind |-> "error", message |-> message]

listResult(isIncomplete, items) ==
  [kind |-> "list", isIncomplete |-> isIncomplete, items |-> items]

\* Lines 116-122.
acquiringTypingsList ==
  listResult(Some(TRUE),
             <<[label |-> "Acquiring typings...",
                detail |-> "Acquiring typings definitions for IntelliSense."]>>)

earlyResult_GateFirst(doc, pos, ctx, completionConfiguration) ==
  IF ~IsSome(toPath(doc.uri))
    THEN Some(nullResult)
  ELSE IF ~shouldTrigger(ctx.triggerCharacter, preTextOf(doc, pos),
                         ctx.option.synname, completionConfiguration)
    THEN Some(nullResult)
  ELSE IF isAcquiringTypings
    THEN Some(acquiringTypingsList)
  ELSE None

earlyResult_NoGate(doc, pos, ctx, completionConfiguration) ==
  IF isAcquiringTypings
    THEN Some(acquiringTypingsList)
  ELSE IF ~IsSome(toPath(doc.uri))
    THEN Some(nullResult)
  ELSE None

\* Lines 115-137: what the invocation returns before any backend work, none
\* when it goes on.
earlyResult(doc, pos, ctx, completionConfiguration) ==
  IF isAcquiringTypings
    THEN Some(acquiringTypingsList)
  ELSE IF ~IsSome(toPath(doc.uri))
    THEN Some(nullResult)
  ELSE IF ~shouldTrigger(ctx.triggerCharacter, preTextOf(doc, pos),
                         ctx.option.synname, completionConfiguration)
    THEN Some(nullResult)
  ELSE None

ProvideStart_WriteAtEntry ==
  /\ ppc = "idle"
  /\ currentLine' = document.line
  /\ LET early == earlyResult(document, position, context, config)
     IN IF IsSome(early)
          THEN /\ presult' = Get(early)
               /\ ppc' = "done"
               /\ UNCHANGED psent
          ELSE /\ psent' = Append(psent, [command |-> "ensureConfigurationForDocument"])
               /\ ppc' = "configure"
               /\ UNCHANGED presult
  /\ UNCHANGED <<envVars, sessionVars, execVars, builderVars, gateVars, splitVars, item, backendDetail, rpc,
                 previousInsert, entry, sent, detailsReply, quickinfoReply,
                 shouldCompleteFunction, ret,
                 isAcquiringTypings, document, position, context,
                 completionReply, conversionContext>>

\* Lines 115-140: entry of an invocation, up to the configuration push.
ProvideStart ==
  /\ ppc = "idle"
  /\ LET early == earlyResult(document, position, context, config)
     IN IF IsSome(early)
          THEN /\ presult' = Get(early)
               /\ ppc' = "done"
               /\ UNCHANGED <<currentLine, psent>>
          ELSE /\ currentLine' = document.line
               /\ psent' = Append(psent, [command |-> "ensureConfigurationForDocument"])
               /\ ppc' = "configure"
               /\ UNCHANGED presult
  /\ UNCHANGED <<envVars, sessionVars, execVars, builderVars, gateVars, splitVars, item, backendDetail, rpc,
                 previousInsert, entry, sent, detailsReply, quickinfoReply,
                 shouldCompleteFunction, ret,
                 isAcquiringTypings, document, position, context,
                 completionReply, conversionContext>>

\* Lines 141-146.
completionsRequestArgs ==
  [location |-> toFileLocationRequestArgs(Get(toPath(document.uri)), position),
   includeExternalModuleExports |-> config.autoImportSuggestions,
   includeInsertTextCompletions |-> TRUE,
   triggerCharacter |-> getTsTriggerCharacter(context)]

\* Lines 140-158 and 184: the configuration push ends; when it succeeded the
\* completion request of the capability version is issued.
ProvideConfigured ==
  /\ ppc = "configure"
  /\ \/ /\ psent' = Append(psent,
             [command |-> IF gte(apiVersion, v300) THEN "completionInfo"
                                                   ELSE "completions",
              args |-> completionsRequestArgs])
        /\ ppc' = "completion"
        /\ UNCHANGED presult
     \/ /\ presult' = errorResult("configure failed")
        /\ ppc' = "done"
        /\ UNCHANGED psent
  /\ UNCHANGED <<envVars, sessionVars, execVars, builderVars, gateVars, splitVars, resolveVars,
                 isAcquiringTypings, document, position, context,
                 completionReply, conversionContext>>

\* Line 175.
isIncompleteOf(response) ==
  IF Get(response.body).isIncomplete THEN Some(TRUE)
  ELSE IF IsSome(response.metadata)
    THEN Some(Get(response.metadata).isIncomplete)
  ELSE None

responseFacts_TextOnly(response) ==
  IF gte(apiVersion, v300)
    THEN [isNewIdentifierLocation |-> Get(response.body).isNewIdentifierLocation,
          isMemberCompletion |-> Get(response.body).isMemberCompletion,
          dotAccessorContext |-> dotAccessorContextOf(document, position),
          isIncomplete |-> isIncompleteOf(response),
          entries |-> Get(response.body).entries]
    ELSE [isNewIdentifierLocation |-> TRUE,
          isMemberCompletion |-> FALSE,
          dotAccessorContext |-> dotAccessorContextOf(document, position),
          isIncomplete |-> Some(FALSE),
          entries |-> Get(response.body)]

\* Lines 162-176 and 188: what the response contributes to the conversion.
responseFacts(response) ==
  IF gte(apiVersion, v300)
    THEN [isNewIdentifierLocation |-> Get(response.body).isNewIdentifierLocation,
          isMemberCompletion |-> Get(response.body).isMemberCompletion,
          dotAccessorContext |-> IF Get(response.body).isMemberCompletion
                                   THEN dotAccessorContextOf(document, position)
                                   ELSE None,
          isIncomplete |-> isIncompleteOf(response),
          entries |-> Get(response.body).entries]
    ELSE [isNewIdentifierLocation |-> TRUE,
          isMemberCompletion |-> FALSE,
          dotAccessorContext |-> None,
          isIncomplete |-> Some(FALSE),
          entries |-> Get(response.body)]

\* Lines 200-208.
conversionContextOf(facts) ==
  [line |-> document.line,
   triggerCharacter |-> context.triggerCharacter,
   isNewIdentifierLocation |-> facts.isNewIdentifierLocation,
   isMemberCompletion |-> facts.isMemberCompletion,
   enableCallCompletions |-> config.useCodeSnippetsOnMethodSuggest,
   isInValidCommitCharacterContext |->
     isInValidCommitCharacterContext(document, position),
   dotAccessorContext |-> facts.dotAccessorContext]

\* Lines 191-212.
completionItemsOf(facts) ==
  LET kept == SelectSeq(facts.entries,
                        LAMBDA e : ~shouldExcludeCompletionEntry(e, config))
  IN [i \in 1..Len(kept) |->
        convertCompletionEntry(kept[i], document.uri, position,
                               conversionContextOf(facts))]

\* Lines 156-189: what a failed or empty round trip makes of the invocation,
\* none when the response carries a body.
roundTripResult(reply) ==
  IF reply.outcome = "throw"
    THEN IF gte(apiVersion, v300) /\ reply.message = "No content available."
           THEN Some(nullResult)
           ELSE Some(errorResult(reply.message))
  ELSE IF reply.outcome # "response" \/ ~IsSome(reply.body)
    THEN Some(nullResult)
  ELSE None

\* Lines 156-212: the completion round trip ends and the list is assembled.
ProvideCompletion(reply) ==
  /\ ppc = "completion"
  /\ completionReply' = Some(reply)
  /\ ppc' = "done"
  /\ LET failed == roundTripResult(reply)
     IN IF IsSome(failed)
          THEN /\ presult' = Get(failed)
               /\ UNCHANGED conversionContext
          ELSE LET facts == responseFacts(reply)
                   items == completionItemsOf(facts)
               IN /\ presult' = listResult(facts.isIncomplete, items)
                  /\ conversionContext' =
                       IF Len(items) > 0 THEN Some(conversionContextOf(facts))
                                         ELSE None
  /\ UNCHANGED <<envVars, sessionVars, execVars, builderVars, gateVars, splitVars, resolveVars,
                 isAcquiringTypings, document, position, context, psent>>

----------------------------------------------------------------------------
(* Values the specifications draw from *)

fooSignature ==
  <<[kind |-> "functionName", text |-> <<"f", "o", "o">>],
    [kind |-> "punctuation", text |-> <<"(">>],
    [kind |-> "parameterName", text |-> <<"a">>],
    [kind |-> "punctuation", text |-> <<",">>],
    [kind |-> "parameterName", text |-> <<"b">>],
    [kind |-> "punctuation", text |-> <<"?">>],
    [kind |-> "punctuation", text |-> <<")">>]>>

importEdit ==
  [start |-> [line |-> 1, offset |-> 1], end |-> [line |-> 1, offset |-> 1],
   newText |-> "import"]

exportEdit ==
  [start |-> [line |-> 3, offset |-> 2], end |-> [line |-> 3, offset |-> 5],
   newText |-> "fix"]

\* An auto-import fix: an edit in a.ts and an edit in b.ts.
twoFileAction ==
  [commands |-> None,
   description |-> "Import from module",
   changes |-> <<[fileName |-> "a.ts", textChanges |-> <<importEdit>>],
                 [fileName |-> "b.ts", textChanges |-> <<exportEdit>>]>>]

\* A fix with an edit in a.ts only.
oneFileAction ==
  [commands |-> None,
   description |-> "Add import",
   changes |-> <<[fileName |-> "a.ts", textChanges |-> <<importEdit>>]>>]

BackendDetails ==
  {[displayParts |-> dp, documentation |-> doc.documentation, tags |-> doc.tags,
    source |-> fix.source, codeActions |-> fix.codeActions] :
     dp \in {<<>>, fooSignature},
     doc \in {[documentation |-> <<>>, tags |-> <<>>],
              [documentation |-> <<[kind |-> "text", text |-> <<"\t", " ", "\n">>]>>,
               tags |-> <<>>],
              [documentation |-> <<[kind |-> "text", text |-> <<"D", "o", "e", "s", " ", "f", "o", "o", ".">>]>>,
               tags |-> <<[name |-> <<"p", "a", "r", "a", "m">>, text |-> <<"a">>]>>]},
     fix \in {[source |-> None, codeActions |-> None],
              [source |-> None, codeActions |-> Some(<<oneFileAction>>)],
              [source |-> Some(<<[kind |-> "text", text |-> <<".", "/", "m", "o", "d">>]>>),
               codeActions |-> Some(<<twoFileAction>>)]}}

\* The source module and opaque data an item may carry: a local symbol, an
\* entry with opaque data and no source module, an auto-import.
ItemKeys ==
  {[source |-> "", data |-> undefined],
   [source |-> "", data |-> "d1"],
   [source |-> "./mod", data |-> "d1"]}

Items ==
  {[label |-> "foo",
    insertText |-> ins,
    insertTextFormat |-> fmt,
    detail |-> dt,
    documentation |-> None,
    command |-> None,
    additionalTextEdits |-> None,
    data |-> [uri |-> uri, position |-> [line |-> 0, character |-> 3],
              source |-> key.source, name |-> "foo", data |-> key.data,
              isSnippet |-> FALSE]] :
     ins \in {None, Some(<<"foo">>)},
     fmt \in {"PlainText", "Snippet"},
     dt \in {None, Some(<<"function">>)},
     uri \in {"file:///a.ts", "untitled:1"},
     key \in ItemKeys}

\* Lines a completion may have been requested on, the cursor after "foo".
ResolveLines ==
  {<<"f", "o", "o">>,
   <<"f", "o", "o", "(", "x", ")">>,
   <<"f", "o", "o", " ", "b", "a", "r", "(">>}

MaxEntries == 2

CompletionEntries ==
  {[name |-> "foo", kind |-> "warning", hasAction |-> FALSE,
    source |-> "", data |-> undefined],
   [name |-> "bar", kind |-> "function", hasAction |-> FALSE,
    source |-> "", data |-> undefined],
   [name |-> "lib", kind |-> "directory", hasAction |-> FALSE,
    source |-> "", data |-> undefined],
   [name |-> "app.ts", kind |-> "script", hasAction |-> FALSE,
    source |-> "", data |-> undefined],
   [name |-> "lodash", kind |-> "external module name", hasAction |-> FALSE,
    source |-> "", data |-> undefined],
   [name |-> "baz", kind |-> "function", hasAction |-> TRUE,
    source |-> "./mod", data |-> "d1"]}

EntryLists == SeqsUpTo(CompletionEntries, MaxEntries)

\* The flags a completionInfo body may carry beside its entries.
BodyFlags ==
  {[isNewIdentifierLocation |-> TRUE, isMemberCompletion |-> FALSE,
    isIncomplete |-> FALSE, metadata |-> None],
   [isNewIdentifierLocation |-> FALSE, isMemberCompletion |-> TRUE,
    isIncomplete |-> FALSE, metadata |-> None],
   [isNewIdentifierLocation |-> FALSE, isMemberCompletion |-> TRUE,
    isIncomplete |-> TRUE, metadata |-> None],
   [isNewIdentifierLocation |-> TRUE, isMemberCompletion |-> FALSE,
    isIncomplete |-> FALSE, metadata |-> Some([isIncomplete |-> TRUE])]}

FailedRoundTrips ==
  {[outcome |-> "throw", message |-> m, body |-> None, metadata |-> None] :
     m \in {"No content available.", "Request failed."}}
  \cup {[outcome |-> o, message |-> "", body |-> None, metadata |-> None] :
          o \in {"cancelled", "noContent", "response"}}

\* Outcomes of the completionInfo round trip (versions from 3.0).
CompletionInfoReplies ==
  FailedRoundTrips
  \cup {[outcome |-> "response", message |-> "",
         body |-> Some([isNewIdentifierLocation |-> f.isNewIdentifierLocation,
                        isMemberCompletion |-> f.isMemberCompletion,
                        isIncomplete |-> f.isIncomplete,
                        entries |-> es]),
         metadata |-> f.metadata] : f \in BodyFlags, es \in EntryLists}

\* Outcomes of the completions round trip (versions below 3.0).
CompletionsReplies ==
  FailedRoundTrips
  \cup {[outcome |-> "response", message |-> "", body |-> Some(es),
         metadata |-> None] : es \in EntryLists}

\* A keystroke: the cursor line, the cursor column, what triggered the
\* completion and the syntax group under the cursor.
Keystrokes ==
  {[line |-> <<"f", "o", "o", ".">>, character |-> 4,
    triggerCharacter |-> ".", synname |-> None],
   [line |-> <<"f", "o", "o", "?", ".">>, character |-> 5,
    triggerCharacter |-> ".", synname |-> None],
   [line |-> <<"f", "o", "o", ".", " ", "b">>, character |-> 5,
    triggerCharacter |-> undefined, synname |-> None],
   [line |-> <<"f", "o", "o", "(", ")">>, character |-> 3,
    triggerCharacter |-> undefined, synname |-> None],
   [line |-> importPrefix, character |-> 7,
    triggerCharacter |-> " ", synname |-> None],
   [line |-> importPrefix \o <<"f", "o", "o", " ">>, character |-> 11,
    triggerCharacter |-> " ", synname |-> None],
   [line |-> <<" ", "*", " ", "@">>, character |-> 4,
    triggerCharacter |-> "@", synname |-> Some(<<"t", "y", "p", "e", "s", "c", "r", "i", "p", "t", "C", "o", "m", "m", "e", "n", "t">>)],
   [line |-> <<"x", " ", "@">>, character |-> 3,
    triggerCharacter |-> "@", synname |-> None],
   [line |-> <<"a", " ", "<">>, character |-> 3,
    triggerCharacter |-> "<", synname |-> None]}

ProvideVersions == {280, 315, 430}

ProvideIdle ==
  /\ isAcquiringTypings = FALSE
  /\ document = [uri |-> "file:///a.ts", line |-> <<>>]
  /\ position = [line |-> 0, character |-> 0]
  /\ context = [triggerCharacter |-> undefined, option |-> [synname |-> None]]
  /\ ppc = "idle"
  /\ psent = <<>>
  /\ completionReply = None
  /\ conversionContext = None
  /\ presult = pendingResult

BuilderIdle == tsOut = None

SessionIdle == parked = None

ExecIdle ==
  /\ execIn = <<>>
  /\ epc = "idle"
  /\ prompts = <<>>
  /\ picked = None
  /\ applied = <<>>

ResolveIdle ==
  /\ currentLine = <<>>
  /\ item = CHOOSE it \in Items : TRUE
  /\ backendDetail = CHOOSE d \in BackendDetails : TRUE
  /\ callIdle

----------------------------------------------------------------------------
(* The gate on its own: one shouldTrigger call on drawn arguments. *)

MaxPreLen == 4

GateAlphabet == {" ", "*", "/", "@"}

ImportTexts ==
  {importPrefix,
   importPrefix \o <<"f", "o", "o", " ">>,
   <<" ">> \o importPrefix,
   <<"i", "m", "p", "o", "r", "t">>,
   <<"I", "m", "p", "o", "r", "t", " ">>,
   importPrefix \o <<" ">>}

\* Documentation-comment lines indented by other white space than a blank.
IndentedDocTexts ==
  {<<"\r", "*", "@">>, <<"\n", "\t", "*", " ", "@">>, <<"U+00A0", "*", "@">>,
   <<"\f", "*", "\t", "@">>}

GateTexts == SeqsUpTo(GateAlphabet, MaxPreLen) \cup ImportTexts \cup IndentedDocTexts

GateTriggers == {"@", "<", " ", ".", "#", undefined}

GateVersions == {280, 290, 420, 430}

GateConfigurations ==
  {[defaultConfiguration EXCEPT !.importStatementSuggestions = b] : b \in BOOLEAN}

GateIdle ==
  /\ gateIn = [triggerCharacter |-> undefined, pre |-> <<>>, synname |-> None]
  /\ gateOut = None

SplitIdle ==
  /\ splitIn = [detail |-> [codeActions |-> None], filepath |-> "a.ts"]
  /\ splitOut = None
  /\ resplitOut = None

InitGate ==
  /\ SessionIdle
  /\ BuilderIdle
  /\ ExecIdle
  /\ apiVersion \in GateVersions
  /\ config \in GateConfigurations
  /\ gateIn \in [triggerCharacter : GateTriggers, pre : GateTexts, synname : SynNames]
  /\ gateOut = None
  /\ SplitIdle
  /\ ResolveIdle
  /\ ProvideIdle

GateCall ==
  /\ gateOut = None
  /\ gateOut' = Some(shouldTrigger(gateIn.triggerCharacter, gateIn.pre,
                                   gateIn.synname, config))
  /\ UNCHANGED <<envVars, sessionVars, execVars, builderVars, gateIn, splitVars, resolveVars, provideVars>>

NextGate == GateCall

SpecGate == InitGate /\ [][NextGate]_vars

\* C6: a space trigger is accepted if and only if importStatementSuggestions
\* is on, the version is below 4.3 and the preceding text is exactly
\* "import "; with the text "import foo " it is rejected.
C6_SpaceTriggersIffExactImport ==
  (IsSome(gateOut) /\ gateIn.triggerCharacter = " ") =>
    /\ Get(gateOut) <=> (/\ config.importStatementSuggestions
                         /\ apiVersion < 430
                         /\ gateIn.pre = <<"i", "m", "p", "o", "r", "t", " ">>)
    /\ gateIn.pre = <<"i", "m", "p", "o", "r", "t", " ", "f", "o", "o", " ">>
         => ~Get(gateOut)

C6_Witness ==
  /\ gateIn.triggerCharacter = " "
  /\ gateIn.pre = importPrefix
  /\ config.importStatementSuggestions
  /\ apiVersion = 420
  /\ gateOut = Some(TRUE)

\* C7: below version 2.9 an '@' trigger is accepted exactly when the cursor
\* is in a string-like region or the preceding text matches one of the two
\* documentation-comment patterns, and '<' is always rejected; from 2.9 on
\* the gate rejects neither character.
C7_LegacyAtAndAngle ==
  IsSome(gateOut) =>
    /\ (apiVersion < 290 /\ gateIn.triggerCharacter = "@") =>
         (Get(gateOut) <=> \/ InStringRegion(gateIn.synname)
                           \/ MatchesDocLine(gateIn.pre)
                           \/ MatchesDocOpen(gateIn.pre))
    /\ (apiVersion < 290 /\ gateIn.triggerCharacter = "<") => ~Get(gateOut)
    /\ (apiVersion >= 290 /\ gateIn.triggerCharacter \in {"@", "<"}) => Get(gateOut)

C7_Witness ==
  /\ apiVersion = 280
  /\ gateIn.triggerCharacter = "@"
  /\ gateIn.synname = Some(<<"t", "y", "p", "e", "s", "c", "r", "i", "p", "t", "C", "o", "m", "m", "e", "n", "t">>)
  /\ gateIn.pre = <<" ", "*", " ", "@">>
  /\ gateOut = Some(TRUE)

----------------------------------------------------------------------------
(* The splitter on its own: getCodeActions on a drawn detail, then again on *)
(* the payload of the command it produced.                                  *)

MaxActions == 2

Files == {"a.ts", "b.ts"}

CodeEdits ==
  {[start |-> [line |-> 1, offset |-> 1], end |-> [line |-> 1, offset |-> 1],
    newText |-> "import"],
   [start |-> [line |-> 3, offset |-> 2], end |-> [line |-> 3, offset |-> 5],
    newText |-> "fix"]}

FileCodeEdits ==
  {[fileName |-> f, textChanges |-> <<e>>] : f \in Files, e \in CodeEdits}
  \cup {[fileName |-> "a.ts", textChanges |-> <<>>]}

ChangeLists ==
  {<<>>} \cup {<<c>> : c \in FileCodeEdits}
         \cup {<<c, d>> : c \in FileCodeEdits, d \in FileCodeEdits}

CodeActions ==
  [commands : {None, Some(<<"organizeImports">>)},
   description : {"Import from module"},
   changes : ChangeLists]

SplitDetails ==
  {[codeActions |-> None]}
  \cup {[codeActions |-> Some(as)] : as \in SeqsUpTo(CodeActions, MaxActions)}

InitSplit ==
  /\ SessionIdle
  /\ BuilderIdle
  /\ ExecIdle
  /\ apiVersion = v430
  /\ config = defaultConfiguration
  /\ GateIdle
  /\ ResolveIdle
  /\ ProvideIdle
  /\ splitIn \in [detail : SplitDetails, filepath : Files]
  /\ splitOut = None
  /\ resplitOut = None

Split ==
  /\ splitOut = None
  /\ splitOut' = Some(getCodeActions(splitIn.detail, splitIn.filepath))
  /\ UNCHANGED <<envVars, sessionVars, execVars, builderVars, gateVars, splitIn, resplitOut, resolveVars, provideVars>>

\* The deferred command's payload handed to the splitter again.
Resplit ==
  /\ IsSome(splitOut)
  /\ IsSome(Get(splitOut).command)
  /\ resplitOut = None
  /\ resplitOut' =
       Some(getCodeActions([codeActions |-> Some(Get(Get(splitOut).command).arguments[1])],
                           splitIn.filepath))
  /\ UNCHANGED <<envVars, sessionVars, execVars, builderVars, gateVars, splitIn, splitOut, resolveVars, provideVars>>

NextSplit == Split \/ Resplit

SpecSplit == InitSplit /\ [][NextSplit]_vars

\* The input of C10: one action with exactly one change for the current file
\* and one for another file, in either order.
OneCurrentOneOther ==
  /\ IsSome(splitIn.detail.codeActions)
  /\ Len(Get(splitIn.detail.codeActions)) = 1
  /\ LET changes == Get(splitIn.detail.codeActions)[1].changes
     IN /\ Len(changes) = 2
        /\ \E i \in 1..2 : /\ changes[i].fileName = splitIn.filepath
                           /\ changes[3 - i].fileName # splitIn.filepath

C10_Action == Get(splitIn.detail.codeActions)[1]

C10_CurrentChange ==
  CHOOSE c \in {C10_Action.changes[1], C10_Action.changes[2]} :
    c.fileName = splitIn.filepath

C10_OtherChange ==
  CHOOSE c \in {C10_Action.changes[1], C10_Action.changes[2]} :
    c.fileName # splitIn.filepath

C10_Stripped ==
  [commands |-> C10_Action.commands,
   description |-> C10_Action.description,
   changes |-> <<C10_OtherChange>>]

C10_FirstSplit ==
  /\ Get(splitOut).additionalTextEdits =
       (IF C10_CurrentChange.textChanges = <<>> THEN None
        ELSE Some([i \in 1..Len(C10_CurrentChange.textChanges) |->
                     [range |->
                        [start |-> [line |-> C10_CurrentChange.textChanges[i].start.line - 1,
                                    character |-> C10_CurrentChange.textChanges[i].start.offset - 1],
                         end |-> [line |-> C10_CurrentChange.textChanges[i].end.line - 1,
                                  character |-> C10_CurrentChange.textChanges[i].end.offset - 1]],
                      newText |-> C10_CurrentChange.textChanges[i].newText]]))
  /\ IsSome(Get(splitOut).command)
  /\ Get(Get(splitOut).command).command = "_typescript.applyCompletionCodeAction"
  /\ Get(Get(splitOut).command).arguments = <<(<<C10_Stripped>>)>>

\* C10 as stated: the first split gives the current-file change's edits and a
\* command carrying the stripped action, and splitting the stripped action
\* again gives no inline edits and no command.
C10_Original ==
  (OneCurrentOneOther /\ IsSome(splitOut) /\ IsSome(resplitOut)) =>
    /\ C10_FirstSplit
    /\ Get(resplitOut).additionalTextEdits = None
    /\ Get(resplitOut).command = None

\* C10, amended: the first split gives the current-file change's edits and a
\* command carrying the stripped action; splitting the stripped action again
\* gives no inline edits and the same command again, its payload the stripped
\* action unchanged (the other-file change is still remaining work).
C10_ResplitIsFixpoint ==
  /\ (OneCurrentOneOther /\ IsSome(splitOut)) => C10_FirstSplit
  /\ (OneCurrentOneOther /\ IsSome(resplitOut)) =>
       /\ Get(resplitOut).additionalTextEdits = None
       /\ Get(resplitOut).command = Get(splitOut).command
       /\ Get(Get(resplitOut).command).arguments = <<(<<C10_Stripped>>)>>

C10_Witness ==
  /\ OneCurrentOneOther
  /\ IsSome(splitOut)
  /\ IsSome(resplitOut)
  /\ IsSome(Get(splitOut).additionalTextEdits)
  /\ Len(Get(Get(splitOut).additionalTextEdits)) = 1

\* The code actions handed to the splitter, none counted as the empty list.
SplitActions ==
  IF splitIn.detail.codeActions = <<>> THEN <<>> ELSE splitIn.detail.codeActions[1]

\* The converted edits of the current-file changes, in action order, then
\* change order.
CurrentFileEdits ==
  Flatten([i \in 1..Len(SplitActions) |->
    Flatten([j \in 1..Len(SplitActions[i].changes) |->
      IF SplitActions[i].changes[j].fileName = splitIn.filepath
        THEN [k \in 1..Len(SplitActions[i].changes[j].textChanges) |->
                fromCodeEdit(SplitActions[i].changes[j].textChanges[k])]
        ELSE <<>>])])

HasRemainingWork ==
  \E i \in 1..Len(SplitActions) :
    \/ SplitActions[i].commands # <<>>
    \/ \E j \in 1..Len(SplitActions[i].changes) :
         SplitActions[i].changes[j].fileName # splitIn.filepath

\* C16: the splitter partitions the per-file changes: the edits of the
\* current-file changes are additionalTextEdits, in action order then change
\* order, and no payload action holds a current-file change; the payload
\* holds every action with exactly its other-file changes; a command is
\* produced if and only if some action carries commands or has a change for
\* another file; additionalTextEdits is unset when there is no such edit.
C16_SplitPartitionsChanges ==
  splitOut # <<>> =>
    LET out == splitOut[1]
    IN /\ out.additionalTextEdits =
            (IF CurrentFileEdits = <<>> THEN <<>> ELSE <<CurrentFileEdits>>)
       /\ out.command # <<>> <=> HasRemainingWork
       /\ out.command # <<>> =>
            LET payload == out.command[1].arguments[1]
            IN /\ Len(payload) = Len(SplitActions)
               /\ \A i \in 1..Len(payload) :
                    /\ payload[i].commands = SplitActions[i].commands
                    /\ payload[i].description = SplitActions[i].description
                    /\ \A j \in 1..Len(payload[i].changes) :
                         payload[i].changes[j].fileName # splitIn.filepath
                    /\ payload[i].changes =
                         SelectSeq(SplitActions[i].changes,
                                   LAMBDA c : c.fileName # splitIn.filepath)

\* Two actions, each with a change for the current file, the first also with
\* a change for another file: two inline edits in action order and a command.
C16_Witness ==
  /\ splitOut # <<>>
  /\ splitIn.filepath = "a.ts"
  /\ Len(SplitActions) = 2
  /\ Len(SplitActions[1].changes) = 2
  /\ SplitActions[1].changes[1].fileName = "b.ts"
  /\ SplitActions[1].changes[2] = [fileName |-> "a.ts", textChanges |-> <<importEdit>>]
  /\ SplitActions[2].changes = <<[fileName |-> "a.ts", textChanges |-> <<exportEdit>>]>>
  /\ splitOut[1].additionalTextEdits =
       <<(<<fromCodeEdit(importEdit), fromCodeEdit(exportEdit)>>)>>
  /\ splitOut[1].command # <<>>

----------------------------------------------------------------------------
(* Resolution with the calls on an item made one after the other: the      *)
(* editor awaits each resolveCompletionItem before it calls again, so one  *)
(* activation (the first) is live at a time and is started over per call.  *)

InitResolve ==
  /\ SessionIdle
  /\ BuilderIdle
  /\ ExecIdle
  /\ apiVersion = v430
  /\ config = defaultConfiguration
  /\ GateIdle
  /\ SplitIdle
  /\ ProvideIdle
  /\ currentLine \in ResolveLines
  /\ item \in Items
  /\ backendDetail \in BackendDetails
  /\ callIdle

NoCallInFlight == \A q \in Calls : rpc[q] \in {"idle", "done"}

NextResolve ==
  \/ NoCallInFlight /\ ResolveStart(1)
  \/ ResolveDetails(1)
  \/ ResolveQuickinfo(1)
  \/ ResolveResume(1)

SpecResolve == InitResolve /\ [][NextResolve]_vars

Returned(p) == rpc[p] = "done" /\ IsSome(entry[p])

AtEntry(p) == Get(entry[p])

\* The completionEntryDetails round trip of call p threw, gave a result that
\* is no response, or gave a response with no body, an empty body or no
\* first detail.
DetailsUnusable(p) ==
  /\ IsSome(detailsReply[p])
  /\ LET r == Get(detailsReply[p])
     IN \/ r.outcome \in {"throw", "cancelled", "noContent"}
        \/ r.body = None
        \/ Get(r.body) = <<>>
        \/ Get(r.body)[1] = None

IssuedQuickinfo(p) == \E i \in 1..Len(sent[p]) : sent[p][i].command = "quickinfo"

\* C1: a call that finds the item already marked isSnippet leaves insertText
\* and additionalTextEdits as the earlier call left them.
C1_ResolveIdempotent ==
  \A p \in Calls :
    (Returned(p) /\ AtEntry(p).data.isSnippet) =>
      /\ item.insertText = AtEntry(p).insertText
      /\ item.additionalTextEdits = AtEntry(p).additionalTextEdits

\* A second call ran the whole pipeline on an item whose snippet the first
\* call had synthesized and whose edits it had attached.
C1_Witness ==
  /\ Returned(1)
  /\ AtEntry(1).data.isSnippet
  /\ IsSome(AtEntry(1).additionalTextEdits)
  /\ IsSome(AtEntry(1).insertText)
  /\ Len(Get(AtEntry(1).insertText)) > 1
  /\ IsSome(detailsReply[1])
  /\ ~DetailsUnusable(1)

\* C2: when the completionEntryDetails round trip throws or gives nothing
\* usable, the call returns the item with every field as at entry and
\* issues no quickinfo request.
C2_UnusableDetailsLeaveItem ==
  \A p \in Calls :
    (Returned(p) /\ DetailsUnusable(p)) =>
      /\ ret[p] = "item"
      /\ item = AtEntry(p)
      /\ ~IssuedQuickinfo(p)

C2_Witness ==
  /\ Returned(1)
  /\ IsSome(detailsReply[1])
  /\ Get(detailsReply[1]).outcome = "response"
  /\ Get(detailsReply[1]).body = Some(<<>>)
  /\ item.insertTextFormat = "Snippet"
  /\ ret[1] = "item"

\* C3 as stated: with an unresolvable file the call returns the item it was
\* given, unchanged, and issues no backend request.
C3_Original ==
  \A p \in Calls :
    (Returned(p) /\ toPath(AtEntry(p).data.uri) = None) =>
      /\ ret[p] = "item"
      /\ item = AtEntry(p)
      /\ sent[p] = <<>>

CancelledAtDetails(p) ==
  IsSome(detailsReply[p]) /\ Get(detailsReply[p]).byCancellation

CancelledAtQuickinfo(p) ==
  IsSome(quickinfoReply[p]) /\ Get(quickinfoReply[p]).byCancellation

SameResolvedFields(a, b) ==
  /\ a.insertText = b.insertText
  /\ a.documentation = b.documentation
  /\ a.command = b.command
  /\ a.additionalTextEdits = b.additionalTextEdits
  /\ a.data.isSnippet = b.data.isSnippet

\* C4 as stated: a call cancelled at either round trip returns the item with
\* insertText, documentation, command, additionalTextEdits and isSnippet as
\* at entry.
C4_Original ==
  \A p \in Calls :
    (Returned(p) /\ (CancelledAtDetails(p) \/ CancelledAtQuickinfo(p))) =>
      /\ ret[p] = "item"
      /\ SameResolvedFields(item, AtEntry(p))

\* C4, amended: a call cancelled at completionEntryDetails returns the item
\* with those fields as at entry; a call cancelled at quickinfo returns the
\* same item already enriched from the detail (documentation and edits
\* replaced, command set when the splitter gave one, isSnippet true), and
\* the cancelled lookup counts as eligible: insertText is the call snippet
\* unless the text after the cursor on currentLine, as the field is when the
\* lookup ends, already looks like a call.
C4_CancelledResolve ==
  \A p \in Calls :
    /\ (Returned(p) /\ CancelledAtDetails(p)) =>
         /\ ret[p] = "item"
         /\ SameResolvedFields(item, AtEntry(p))
    /\ (Returned(p) /\ CancelledAtQuickinfo(p)) =>
         LET split == getCodeActions(backendDetail, Get(toPath(item.data.uri)))
             after == slice(currentLine, item.data.position.character)
         IN /\ ret[p] = "item"
            /\ item.data.isSnippet /\ ~AtEntry(p).data.isSnippet
            /\ item.documentation = getDocumentation(backendDetail)
            /\ item.additionalTextEdits = split.additionalTextEdits
            /\ item.command = (IF IsSome(split.command) THEN split.command
                               ELSE AtEntry(p).command)
            /\ item.insertText =
                 (IF LooksLikeCall(after) THEN AtEntry(p).insertText
                  ELSE createSnippetOfFunctionCall(AtEntry(p), backendDetail).insertText)

\* A call cancelled at quickinfo returned with the snippet synthesized.
C4_Witness ==
  /\ Returned(1)
  /\ CancelledAtQuickinfo(1)
  /\ Get(quickinfoReply[1]).outcome = "cancelled"
  /\ item.insertText # AtEntry(1).insertText
  /\ IsSome(item.documentation)

\* The completionEntryDetails request of call p, when it issued one.
SentDetails(p) == Len(sent[p]) >= 1 /\ sent[p][1].command = "completionEntryDetails"

\* C13 as stated: the key sent in entryNames differs from the key any item
\* of the same file, position and name would send that has another source
\* module or other opaque data.
C13_Original ==
  \A p \in Calls :
    (IsSome(entry[p]) /\ SentDetails(p)) =>
      \A other \in ItemKeys :
        (other.source # AtEntry(p).data.source \/ other.data # AtEntry(p).data.data)
          => sent[p][1].args.entryNames[1] #
               entryName([AtEntry(p).data EXCEPT !.source = other.source,
                                                 !.data = other.data])

----------------------------------------------------------------------------
(* List assembly: one provideCompletionItems invocation on a drawn          *)
(* keystroke, configuration, capability version and backend outcome.        *)

InitProvide ==
  /\ SessionIdle
  /\ BuilderIdle
  /\ ExecIdle
  /\ apiVersion \in ProvideVersions
  /\ config \in Configurations
  /\ GateIdle
  /\ SplitIdle
  /\ ResolveIdle
  /\ isAcquiringTypings \in BOOLEAN
  /\ \E k \in Keystrokes, uri \in {"file:///a.ts", "untitled:1"} :
       /\ document = [uri |-> uri, line |-> k.line]
       /\ position = [line |-> 0, character |-> k.character]
       /\ context = [triggerCharacter |-> k.triggerCharacter,
                     option |-> [synname |-> k.synname]]
  /\ ppc = "idle"
  /\ psent = <<>>
  /\ completionReply = None
  /\ conversionContext = None
  /\ presult = pendingResult

NextProvide ==
  \/ ProvideStart
  \/ ProvideConfigured
  \/ \E reply \in (IF gte(apiVersion, v300) THEN CompletionInfoReplies
                                            ELSE CompletionsReplies) :
       ProvideCompletion(reply)

SpecProvide == InitProvide /\ [][NextProvide]_vars

\* C5 as stated: at every capability version a round-trip failure with the
\* message 'No content available.' makes the invocation return null, and
\* any other round-trip failure reaches the caller.
C5_Original ==
  (ppc = "done" /\ IsSome(completionReply)
     /\ Get(completionReply).outcome = "throw") =>
    IF Get(completionReply).message = "No content available."
      THEN presult = [kind |-> "null"]
      ELSE presult = [kind |-> "error", message |-> Get(completionReply).message]

\* C8: while typings are being acquired an invocation returns the one
\* placeholder item with isIncomplete true and makes no backend call.
C8_AcquiringTypingsPlaceholder ==
  isAcquiringTypings =>
    /\ psent = <<>>
    /\ completionReply = None
    /\ ppc \in {"idle", "done"}
    /\ ppc = "done" =>
         /\ presult.kind = "list"
         /\ presult.isIncomplete = Some(TRUE)
         /\ Len(presult.items) = 1
         /\ presult.items[1].label = "Acquiring typings..."

\* Typings are being acquired on a keystroke the gate would reject, in a
\* document with no file path.
C8_Witness ==
  /\ isAcquiringTypings
  /\ ppc = "done"
  /\ document.uri = "untitled:1"
  /\ context.triggerCharacter = "<"
  /\ apiVersion = 280
  /\ presult.kind = "list"

\* The entries of the backend's response, in backend order.
RepliedEntries ==
  IF apiVersion >= 300 THEN Get(Get(completionReply).body).entries
                       ELSE Get(Get(completionReply).body)

\* The Entry Filter as the claim states it.
Dropped(e) ==
  \/ e.kind = "warning" /\ ~config.nameSuggestions
  \/ e.kind \in {"directory", "script", "external module name"}
       /\ ~config.pathSuggestions
  \/ e.hasAction /\ ~config.autoImportSuggestions

\* C9: the returned items are, in backend order, exactly the entries the
\* Entry Filter keeps.
C9_ItemsAreKeptEntriesInOrder ==
  (ppc = "done" /\ IsSome(completionReply)
     /\ Get(completionReply).outcome = "response"
     /\ IsSome(Get(completionReply).body)) =>
    LET kept == SelectSeq(RepliedEntries, LAMBDA e : ~Dropped(e))
    IN /\ presult.kind = "list"
       /\ Len(presult.items) = Len(kept)
       /\ \A i \in 1..Len(kept) :
            /\ presult.items[i].label = kept[i].name
            /\ presult.items[i].data.name = kept[i].name
            /\ presult.items[i].data.source = kept[i].source

\* Entries [foo:warning, bar:function] with nameSuggestions off give the one
\* item bar.
C9_Witness ==
  /\ ppc = "done"
  /\ IsSome(completionReply)
  /\ Get(completionReply).outcome = "response"
  /\ IsSome(Get(completionReply).body)
  /\ Len(RepliedEntries) = 2
  /\ RepliedEntries[1].name = "foo" /\ RepliedEntries[1].kind = "warning"
  /\ RepliedEntries[2].name = "bar" /\ RepliedEntries[2].kind = "function"
  /\ ~config.nameSuggestions
  /\ presult.kind = "list"
  /\ Len(presult.items) = 1
  /\ presult.items[1].label = "bar"

\* An item was converted in this invocation, so a conversion context exists.
Converted == ppc = "done" /\ conversionContext # None

\* The body of the completionInfo response of this invocation.
RepliedBody == Get(Get(completionReply).body)

\* C14: a DotAccessorContext reaches item conversion only if the response of
\* the same invocation reported isMemberCompletion true; on the legacy
\* response shape none is ever attached.
C14_DotContextOnlyForMemberCompletion ==
  Converted =>
    /\ conversionContext[1].dotAccessorContext # <<>> =>
         /\ apiVersion >= 300
         /\ RepliedBody.isMemberCompletion = TRUE
    /\ apiVersion < 300 => conversionContext[1].dotAccessorContext = <<>>

\* A member completion after "foo." was converted with a DotAccessorContext.
C14_Witness ==
  /\ Converted
  /\ apiVersion = 315
  /\ document.line = <<"f", "o", "o", ".">>
  /\ RepliedBody.isMemberCompletion
  /\ conversionContext[1].dotAccessorContext # <<>>

\* The Trigger Gate's verdict on this invocation's keystroke.
GateAccepts ==
  shouldTrigger(context.triggerCharacter, preTextOf(document, position),
                context.option.synname, config)

CompletionCommands == {"completionInfo", "completions"}

\* C15: no backend request is issued unless the Trigger Gate has accepted;
\* the configuration push comes first and the completion request is issued
\* only once the push has completed; a gate rejection returns null with no
\* backend request at all.
C15_GateThenConfigureThenComplete ==
  /\ psent # <<>> =>
       /\ GateAccepts
       /\ psent[1].command = "ensureConfigurationForDocument"
  /\ Len(psent) <= 2
  /\ ppc = "configure" => Len(psent) = 1
  /\ Len(psent) = 2 =>
       /\ psent[2].command \in CompletionCommands
       /\ ppc \in {"completion", "done"}
  /\ completionReply # None => Len(psent) = 2
  /\ (ppc = "done" /\ ~isAcquiringTypings /\ toPath(document.uri) # None
        /\ ~GateAccepts) =>
       /\ presult = [kind |-> "null"]
       /\ psent = <<>>

\* An accepted invocation pushed the configuration, then asked for the
\* completions and returned a list.
C15_Witness ==
  /\ ppc = "done"
  /\ Len(psent) = 2
  /\ psent[1].command = "ensureConfigurationForDocument"
  /\ psent[2].command = "completionInfo"
  /\ presult.kind = "list"

\* The trailing accessor span of the text before the cursor: the longest
\* suffix made of an optional '?', a '.', then whitespace only.
AccessorSpan ==
  LET pre == preTextOf(document, position)
      isSpan(i) == LET k == IF pre[i] = "?" THEN i + 1 ELSE i
                   IN /\ k <= Len(pre)
                      /\ pre[k] = "."
                      /\ \A j \in (k + 1)..Len(pre) : IsSpace(pre[j])
      starts == {i \in 1..Len(pre) : isSpan(i)}
      first == CHOOSE i \in starts : \A j \in starts : i <= j
  IN IF starts = {} THEN <<>> ELSE SubSeq(pre, first, Len(pre))

\* C17 as stated: the attached DotAccessorContext starts at the first
\* character of the matched span, ends at the cursor, and its text is the
\* matched span.
C17_Original ==
  (Converted /\ conversionContext[1].dotAccessorContext # <<>>) =>
    LET dot == conversionContext[1].dotAccessorContext[1]
    IN /\ dot.text = AccessorSpan
       /\ dot.range.end = position
       /\ dot.range.start = [line |-> position.line,
                             character |-> position.character - Len(AccessorSpan)]

\* C20: no completion request carries the trigger character ' ': a
\* space-triggered request is issued only below version 4.3 with the
\* preceding text "import ", and it is sent with triggerCharacter undefined.
C20_SpaceNeverForwarded ==
  \A i \in 1..Len(psent) :
    psent[i].command \in {"completionInfo", "completions"} =>
      /\ psent[i].args.triggerCharacter # " "
      /\ context.triggerCharacter = " " =>
           /\ apiVersion < 430
           /\ SubSeq(document.line, 1, position.character)
                = <<"i", "m", "p", "o", "r", "t", " ">>
           /\ psent[i].args.triggerCharacter = "undefined"

\* A space after "import" at version 3.1.5 went to the backend.
C20_Witness ==
  /\ context.triggerCharacter = " "
  /\ apiVersion = 315
  /\ document.line = importPrefix
  /\ Len(psent) = 2
  /\ psent[2].command = "completionInfo"
  /\ psent[2].args.triggerCharacter = undefined

----------------------------------------------------------------------------
(* The deferred command: ApplyCompletionCodeActionCommand.execute on a      *)
(* drawn list of code actions.                                              *)

MaxExecActions == 3

\* A fix that carries a command and no change.
commandOnlyAction ==
  [commands |-> Some(<<"organizeImports">>),
   description |-> "Organize imports",
   changes |-> <<>>]

ExecActions == {twoFileAction, oneFileAction, commandOnlyAction}

\* Line 42: the descriptions shown for the choice.
descriptionsOf(codeActions) ==
  [i \in 1..Len(codeActions) |-> codeActions[i].description]

\* window.showQuickpick resolves to the 0-based index of the chosen line, or
\* to -1 when the prompt is dismissed.
QuickpickResults(codeActions) == (-1)..(Len(codeActions) - 1)

chosenAction_IgnoreCancel(codeActions, idx) ==
  IF idx < 0 THEN Some(codeActions[1]) ELSE Some(codeActions[idx + 1])

\* Lines 43-44: the action of the chosen index, none when idx < 0.
chosenAction(codeActions, idx) ==
  IF idx < 0 THEN None ELSE Some(codeActions[idx + 1])

\* Lines 34-42: entry of execute, up to its first await.
ExecStart ==
  /\ epc = "idle"
  /\ IF Len(execIn) = 0
       THEN /\ epc' = "done"
            /\ UNCHANGED <<prompts, applied>>
     ELSE IF Len(execIn) = 1
       THEN /\ applied' = Append(applied, execIn[1])
            /\ epc' = "apply"
            /\ UNCHANGED prompts
     ELSE /\ prompts' = Append(prompts,
               [items |-> descriptionsOf(execIn),
                title |-> "Select code action to apply"])
          /\ epc' = "pick"
          /\ UNCHANGED applied
  /\ UNCHANGED <<envVars, sessionVars, builderVars, gateVars, splitVars, resolveVars, provideVars,
                 execIn, picked>>

\* Lines 42-45: the prompt resolves.
ExecPicked(idx) ==
  /\ epc = "pick"
  /\ picked' = Some(idx)
  /\ LET action == chosenAction(execIn, idx)
     IN IF IsSome(action)
          THEN /\ applied' = Append(applied, Get(action))
               /\ epc' = "apply"
          ELSE /\ epc' = "done"
               /\ UNCHANGED applied
  /\ UNCHANGED <<envVars, sessionVars, builderVars, gateVars, splitVars, resolveVars, provideVars,
                 execIn, prompts>>

\* Lines 39-40 and 45-46: applyCodeAction settles and execute ends.
ExecApplied ==
  /\ epc = "apply"
  /\ epc' = "done"
  /\ UNCHANGED <<envVars, sessionVars, builderVars, gateVars, splitVars, resolveVars, provideVars,
                 execIn, prompts, picked, applied>>

InitExec ==
  /\ SessionIdle
  /\ BuilderIdle
  /\ apiVersion = v430
  /\ config = defaultConfiguration
  /\ GateIdle
  /\ SplitIdle
  /\ ResolveIdle
  /\ ProvideIdle
  /\ execIn \in SeqsUpTo(ExecActions, MaxExecActions)
  /\ epc = "idle"
  /\ prompts = <<>>
  /\ picked = None
  /\ applied = <<>>

NextExec ==
  \/ ExecStart
  \/ \E idx \in QuickpickResults(execIn) : ExecPicked(idx)
  \/ ExecApplied

SpecExec == InitExec /\ [][NextExec]_vars

\* C11: one execution applies at most one code action: none and no prompt
\* for an empty list; the one action and no prompt for a list of one; for a
\* longer list one prompt with the actions' descriptions, then only the
\* chosen action, and none when the choice is cancelled.
C11_AppliesAtMostOne ==
  /\ Len(applied) <= 1
  /\ Len(prompts) <= 1
  /\ Len(execIn) = 0 => applied = <<>> /\ prompts = <<>>
  /\ Len(execIn) = 1 =>
       /\ prompts = <<>>
       /\ epc # "idle" => applied = <<execIn[1]>>
  /\ Len(execIn) > 1 =>
       /\ epc # "idle" =>
            /\ Len(prompts) = 1
            /\ prompts[1].items = [i \in 1..Len(execIn) |-> execIn[i].description]
       /\ picked = None => applied = <<>>
       /\ (picked # None /\ picked[1] < 0) => applied = <<>> /\ epc = "done"
       /\ (picked # None /\ picked[1] >= 0) => applied = <<execIn[picked[1] + 1]>>

\* Of three actions the second was chosen and applied.
C11_Witness ==
  /\ Len(execIn) = 3
  /\ execIn[1] # execIn[2]
  /\ picked = Some(1)
  /\ epc = "done"
  /\ applied = <<execIn[2]>>
  /\ Len(prompts) = 1

----------------------------------------------------------------------------
(* The request builder on its own: one getTsTriggerCharacter call on a      *)
(* drawn trigger character and capability version.                          *)

\* What context.triggerCharacter may hold: a registered trigger character,
\* another character, or nothing.
BuilderTriggers == triggerCharacters \cup {undefined, "a", "(", ":"}

InitBuilder ==
  /\ SessionIdle
  /\ apiVersion \in Versions
  /\ config = defaultConfiguration
  /\ GateIdle
  /\ SplitIdle
  /\ ResolveIdle
  /\ ExecIdle
  /\ isAcquiringTypings = FALSE
  /\ document = [uri |-> "file:///a.ts", line |-> <<>>]
  /\ position = [line |-> 0, character |-> 0]
  /\ context \in [triggerCharacter : BuilderTriggers,
                  option : {[synname |-> None]}]
  /\ ppc = "idle"
  /\ psent = <<>>
  /\ completionReply = None
  /\ conversionContext = None
  /\ presult = pendingResult
  /\ tsOut = None

BuilderCall ==
  /\ tsOut = None
  /\ tsOut' = Some(getTsTriggerCharacter(context))
  /\ UNCHANGED <<envVars, sessionVars, execVars, gateVars, splitVars, resolveVars, provideVars>>

NextBuilder == BuilderCall

SpecBuilder == InitBuilder /\ [][NextBuilder]_vars

\* C12: the trigger character placed in the request is '@' unless the
\* version is in [3.1, 3.2), '#' iff the version is at least 3.8.1, ' ' iff
\* it is at least 4.3, the character itself for . " ' backtick / <, and
\* undefined for any other character, for no trigger character and in the
\* excluded version ranges.
C12_ForwardedTriggerCharacter ==
  tsOut # None =>
    LET c == context.triggerCharacter
        out == tsOut[1]
    IN /\ c = "@" => out = (IF apiVersion >= 310 /\ apiVersion < 320
                              THEN "undefined" ELSE "@")
       /\ c = "#" => out = (IF apiVersion >= 381 THEN "#" ELSE "undefined")
       /\ c = " " => out = (IF apiVersion >= 430 THEN " " ELSE "undefined")
       /\ c \in {".", "\"", "'", "backtick", "/", "<"} => out = c
       /\ c \notin {"@", "#", " ", ".", "\"", "'", "backtick", "/", "<"}
            => out = "undefined"

\* An '@' at version 3.1.5, inside the excluded window, is not forwarded.
C12_Witness ==
  /\ apiVersion = 315
  /\ context.triggerCharacter = "@"
  /\ tsOut = Some("undefined")

----------------------------------------------------------------------------
(* A completion session: the editor calls provideCompletionItems on one     *)
(* keystroke after the other, without waiting for the invocation before to  *)
(* return, and calls resolveCompletionItem on items of the lists returned.  *)
(* Two invocations may be in flight: the one that takes the next step has   *)
(* its locals in document, position, context, ppc, psent, completionReply,  *)
(* conversionContext and presult; the other one, suspended at its await,    *)
(* has them in parked.  The field currentLine is shared by all of them.     *)

SessionVersions == {315}

SessionConfigurations ==
  {[defaultConfiguration EXCEPT !.useCodeSnippetsOnMethodSuggest = TRUE]}

SessionKeystrokes ==
  {k \in Keystrokes : k.line \in {<<"f", "o", "o", ".">>,
                                  <<"f", "o", "o", "(", ")">>,
                                  importPrefix \o <<"f", "o", "o", " ">>}}

SessionUris == {"file:///a.ts", "untitled:1"}

SessionEntries == {x \in CompletionEntries : x.name = "bar"}

SessionEntryLists == {<<>>} \cup {<<e>> : e \in SessionEntries}

SessionReplies ==
  {r \in FailedRoundTrips : r.outcome \in {"throw", "noContent"}}
  \cup {[outcome |-> "response", message |-> "",
         body |-> Some([isNewIdentifierLocation |-> FALSE,
                        isMemberCompletion |-> TRUE,
                        isIncomplete |-> FALSE,
                        entries |-> es]),
         metadata |-> None] : es \in SessionEntryLists}

SessionDetails ==
  {d \in BackendDetails : /\ d.displayParts = fooSignature
                          /\ d.documentation = <<>>
                          /\ d.codeActions = None}

\* The locals of the invocation that takes the next step.
Foreground ==
  [document |-> document, position |-> position, context |-> context,
   ppc |-> ppc, psent |-> psent, completionReply |-> completionReply,
   conversionContext |-> conversionContext, presult |-> presult]

\* The invocation waits at line 140, 158 or 184.
Suspended == ppc \in {"configure", "completion"}

InitSession ==
  /\ parked = None
  /\ BuilderIdle
  /\ ExecIdle
  /\ GateIdle
  /\ SplitIdle
  /\ ResolveIdle
  /\ apiVersion \in SessionVersions
  /\ config \in SessionConfigurations
  /\ isAcquiringTypings \in BOOLEAN
  /\ \E k \in SessionKeystrokes, uri \in SessionUris :
       /\ document = [uri |-> uri, line |-> k.line]
       /\ position = [line |-> 0, character |-> k.character]
       /\ context = [triggerCharacter |-> k.triggerCharacter,
                     option |-> [synname |-> k.synname]]
  /\ ppc = "idle"
  /\ psent = <<>>
  /\ completionReply = None
  /\ conversionContext = None
  /\ presult = pendingResult

\* The editor is about to ask for a new list on another keystroke.  The
\* invocation before has returned, or it stays suspended at its await.
SessionKeystroke ==
  /\ \/ ppc = "done" /\ UNCHANGED parked
     \/ Suspended /\ parked = None /\ parked' = Some(Foreground)
  /\ isAcquiringTypings' \in BOOLEAN
  /\ \E k \in SessionKeystrokes, uri \in SessionUris :
       /\ document' = [uri |-> uri, line |-> k.line]
       /\ position' = [line |-> 0, character |-> k.character]
       /\ context' = [triggerCharacter |-> k.triggerCharacter,
                      option |-> [synname |-> k.synname]]
  /\ ppc' = "idle"
  /\ psent' = <<>>
  /\ completionReply' = None
  /\ conversionContext' = None
  /\ presult' = pendingResult
  /\ UNCHANGED <<envVars, execVars, builderVars, gateVars, splitVars, resolveVars>>

\* The await of the other invocation is the next to settle: the two
\* invocations change places, or the suspended one takes the place of the
\* one that has returned.
SessionResume ==
  /\ parked # None
  /\ ppc \in {"configure", "completion", "done"}
  /\ parked' = IF Suspended THEN Some(Foreground) ELSE None
  /\ document' = Get(parked).document
  /\ position' = Get(parked).position
  /\ context' = Get(parked).context
  /\ ppc' = Get(parked).ppc
  /\ psent' = Get(parked).psent
  /\ completionReply' = Get(parked).completionReply
  /\ conversionContext' = Get(parked).conversionContext
  /\ presult' = Get(parked).presult
  /\ UNCHANGED <<envVars, execVars, builderVars, gateVars, splitVars, resolveVars,
                 isAcquiringTypings>>

\* The editor selects an item of a returned list, the placeholder of the
\* typings list included; the backend holds the details of an entry.
SessionSelect ==
  /\ ppc = "done"
  /\ presult.kind = "list"
  /\ NoCallInFlight
  /\ \E i \in 1..Len(presult.items) : item' = presult.items[i]
  /\ backendDetail' \in SessionDetails
  /\ rpc' = [p \in Calls |-> "idle"]
  /\ previousInsert' = [p \in Calls |-> None]
  /\ entry' = [p \in Calls |-> None]
  /\ sent' = [p \in Calls |-> <<>>]
  /\ detailsReply' = [p \in Calls |-> None]
  /\ quickinfoReply' = [p \in Calls |-> None]
  /\ shouldCompleteFunction' = [p \in Calls |-> None]
  /\ ret' = [p \in Calls |-> "none"]
  /\ UNCHANGED <<envVars, sessionVars, execVars, builderVars, gateVars, splitVars,
                 provideVars, currentLine>>

\* The labels of the items a list of the session can hold.
SessionLabels ==
  {e.name : e \in SessionEntries}
    \cup {acquiringTypingsList.items[i].label :
            i \in 1..Len(acquiringTypingsList.items)}

\* resolveCompletionItem is called on the selected item.
SessionResolveStart ==
  /\ item.label \in SessionLabels
  /\ NoCallInFlight
  /\ ResolveStart(1)

NextSession ==
  \/ ProvideStart
  \/ ProvideConfigured
  \/ \E reply \in SessionReplies : ProvideCompletion(reply)
  \/ SessionKeystroke
  \/ SessionResume
  \/ SessionSelect
  \/ SessionResolveStart
  \/ ResolveDetails(1)
  \/ ResolveQuickinfo(1)
  \/ ResolveResume(1)

SpecSession == InitSession /\ [][NextSession]_vars

\* The invocation passes the typings check, the file lookup and the gate.
PassesEarlyChecks ==
  /\ ~isAcquiringTypings
  /\ toPath(document.uri) # <<>>
  /\ GateAccepts

\* C18 as stated: once an invocation has begun, whatever its outcome,
\* currentLine is the text of its cursor line.
C18_Original == ppc # "idle" => currentLine = document.line

\* C18, amended: currentLine is written only by provideCompletionItems, at
\* the step in which an invocation passes the typings check, the file lookup
\* and the Trigger Gate, before its first backend request, and it is set to
\* that invocation's cursor line.  An invocation that returns early, the
\* later steps of every invocation and every step of resolveCompletionItem
\* leave the field as it was.
C18_CurrentLineWrittenOnAcceptance ==
  [][IF ppc = "idle" /\ ppc' # "idle" /\ PassesEarlyChecks
       THEN currentLine' = document.line
       ELSE currentLine' = currentLine]_vars

\* An invocation the gate rejected has returned, and currentLine still holds
\* the line of the accepted invocation before it.
C18_Witness ==
  /\ ppc = "done"
  /\ ~isAcquiringTypings
  /\ toPath(document.uri) # <<>>
  /\ ~GateAccepts
  /\ presult = nullResult
  /\ document.line = importPrefix \o <<"f", "o", "o", " ">>
  /\ currentLine = <<"f", "o", "o", "(", ")">>

----------------------------------------------------------------------------
(* Resolution with the calls on one item in flight together: each call is   *)
(* suspended at its two awaits, the others and the editor run in between.   *)

ConcurrentItems ==
  {it \in Items : /\ it.data.uri = "file:///a.ts"
                  /\ it.insertTextFormat = "Snippet"
                  /\ it.detail = None
                  /\ it.data.source = ""
                  /\ it.data.data = undefined}

ConcurrentDetails ==
  {d \in BackendDetails : /\ d.displayParts = fooSignature
                          /\ d.documentation = <<>>
                          /\ d.codeActions = None}

\* The cursor stands at the end of the line: nothing after it looks like a call.
ConcurrentLines == {<<"f", "o", "o">>}

\* The insertion texts the editor may write into the item meanwhile.
OutsideTexts == {Some(<<"edited">>), Some(<<"foo">>)}

InitConcurrent ==
  /\ SessionIdle
  /\ BuilderIdle
  /\ ExecIdle
  /\ apiVersion = v430
  /\ config = defaultConfiguration
  /\ GateIdle
  /\ SplitIdle
  /\ ProvideIdle
  /\ currentLine \in ConcurrentLines
  /\ item \in ConcurrentItems
  /\ backendDetail \in ConcurrentDetails
  /\ callIdle

ConcurrentStart(p) == rpc[p] = "idle" /\ ResolveStart(p)

\* The editor rewrites the item's insertText between two steps of the calls.
OutsideMutation ==
  /\ \E text \in OutsideTexts :
       /\ text # item.insertText
       /\ item' = [item EXCEPT !.insertText = text]
  /\ UNCHANGED <<envVars, sessionVars, execVars, builderVars, gateVars, splitVars, provideVars,
                 currentLine, backendDetail, rpc, previousInsert, entry, sent,
                 detailsReply, quickinfoReply, shouldCompleteFunction, ret>>

NextConcurrent ==
  \/ \E p \in Calls : ConcurrentStart(p)
  \/ \E p \in Calls : ResolveDetails(p)
  \/ \E p \in Calls : ResolveQuickinfo(p)
  \/ \E p \in Calls : ResolveResume(p)
  \/ OutsideMutation

SpecConcurrent == InitConcurrent /\ [][NextConcurrent]_vars

\* The tokens one synthesis adds to a one-token insertion text: "(", the
\* placeholders and their joiners, the optional tab stop, ")", the final
\* tab stop.
WrapLen ==
  Len(Get(createSnippetOfFunctionCall([item EXCEPT !.insertText = Some(<<"foo">>)],
                                      backendDetail).insertText)) - 1

\* How many parameter lists the insertion text carries: every text the
\* editor writes and every label is one token.
ParameterLists(text) == IF Len(text) <= 1 THEN 0 ELSE (Len(text) - 1) \div WrapLen

InsertTextOf(it) == IF it.insertText = <<>> THEN <<>> ELSE it.insertText[1]

\* Call p gets past the snippet guard and on to the eligibility lookup.
PassedSnippetGuard(p) ==
  \E i \in 1..Len(sent[p]) : sent[p][i].command = "quickinfo"

\* C19: under any interleaving of the calls on one item and of outside
\* writes of its insertText, a call replaces insertText by a call snippet
\* only if insertText still equals the value the call snapshotted at entry;
\* at most one call per item gets to synthesize; and insertText never
\* carries a second parameter list.
C19_SnippetOnceAndOnlyOnSnapshot ==
  /\ [][\A p \in Calls :
          (rpc[p] = "resume" /\ rpc'[p] = "done"
             /\ item'.insertText # item.insertText)
            => item.insertText = previousInsert[p]]_vars
  /\ [](Cardinality({p \in Calls : PassedSnippetGuard(p)}) <= 1)
  /\ [](ParameterLists(InsertTextOf(item)) <= 1)

\* Two calls entered before either round trip ended; the first synthesized
\* the snippet, the second found the item already marked and left it.
C19_Witness ==
  /\ rpc[1] = "done" /\ rpc[2] = "done"
  /\ entry[1] # <<>> /\ entry[2] # <<>>
  /\ ~entry[1][1].data.isSnippet /\ ~entry[2][1].data.isSnippet
  /\ previousInsert[1] = previousInsert[2]
  /\ PassedSnippetGuard(1)
  /\ detailsReply[2] # <<>>
  /\ detailsReply[2][1].outcome = "response"
  /\ detailsReply[2][1].body = Some(<<Some(backendDetail)>>)
  /\ ParameterLists(InsertTextOf(item)) = 1

====
